---- MODULE Spec2Model ----
(***************************************************************************)
(* Pooled dispatch and two-stage SIGINT shutdown of ThreadPoolWSGIServer   *)
(* (src/aether/_threadpoolwsgi.py); ProcessPoolWSGIServer                  *)
(* (src/aether/_processpoolwsgi.py) has the same process_request,          *)
(* __handle_request, server_close, run and _handle_sigint, line for line.  *)
(*                                                                         *)
(* Threads of the model:                                                   *)
(*   - the main thread: run() -> serve_forever() -> process_request(), and *)
(*     the Python-level signal handler _handle_sigint, which CPython runs  *)
(*     in the main thread between two of its bytecodes;                    *)
(*   - the executor's workers, each running __handle_request for one       *)
(*     submitted connection at a time.                                     *)
(*                                                                         *)
(* Library behaviour the source relies on, modelled where it is called:    *)
(*   - socketserver.BaseServer.serve_forever loops on select/accept until  *)
(*     shutdown() is called; the source never calls shutdown(), so the     *)
(*     loop is left only by an exception;                                  *)
(*   - _handle_request_noblock closes the request and re-raises when       *)
(*     process_request is left by a non-Exception (SystemExit);            *)
(*   - werkzeug's serve_forever wraps the loop in try/finally and calls    *)
(*     self.server_close() in the finally;                                 *)
(*   - signal.signal installs a Python-level handler: the runtime marks   *)
(*     an arriving SIGINT as tripped and calls the handler once at the     *)
(*     main thread's next check, however many SIGINTs arrived until then;  *)
(*   - sys.exit(1) raises SystemExit in the main thread; the interpreter   *)
(*     exits with status 1 once it has unwound and joined the executor's   *)
(*     worker threads (concurrent.futures joins them at interpreter exit). *)
(***************************************************************************)
EXTENDS Naturals, FiniteSets, Sequences

\* Bounds of the model.
MaxConn == 2        \* connections the listener can deliver
MaxWorkers == 1     \* pool capacity (max_workers)
MaxSignals == 3     \* SIGINTs the environment can deliver

VARIABLES
    sigint_count,       \* module global sigint_count
    shutdown_event,     \* ThreadPoolWSGIServer._shutdown_event.is_set()
    handler,            \* frame of _handle_sigint on the main thread: "none", or
                        \* the instance whose handler is before shutdown_event.set()
    pc,                 \* position of the main thread
    cur,                \* connection held by process_request (0: none)
    conn,               \* per connection: where it is
    closes,             \* per connection: number of calls of request.close()
    futures,            \* _futures, the tracking list
    listening,          \* the listening socket is open
    executor_shutdown,  \* executor.shutdown() has been called
    exit_status,        \* <<>> while the process is alive, then <<its exit status>>
    max_workers,        \* ThreadPoolExecutor(max_workers=...)
    submissions,        \* number of calls of executor.submit
    sub_state,          \* per connection: shutdown_event at its executor.submit
    close_waited,       \* server_close was called with tasks queued or running
    delivered,          \* SIGINTs sent to the process so far
    handler_runs,       \* number of times _handle_sigint has been entered
    own_event           \* per server instance: its instance attribute
                        \* _shutdown_event ("none": only the class attribute)

vars == <<sigint_count, shutdown_event, handler, pc, cur, conn, closes, futures,
          listening, executor_shutdown, exit_status, max_workers, submissions,
          sub_state, close_waited, delivered, handler_runs, own_event>>

Conns == 1..MaxConn

\* Server instances of the class in the process. The main thread runs
\* Serving.run(); the bound _handle_sigint of either instance can be the
\* handler that signal.signal has installed when a SIGINT is handled.
Servers == {"A", "B"}

Serving == "A"

\* self.shutdown_event.is_set(): the property returns self._shutdown_event,
\* the instance attribute if the setter ever stored one, else the class
\* attribute shared by all instances.
is_set(s) ==
    IF own_event[s] = "none" THEN shutdown_event ELSE own_event[s] = "set"

\* A task that ran __handle_request to its end: "done" returned normally,
\* "failed" let an exception escape into its Future.
Terminal == {"done", "failed"}

Unfinished == {c \in Conns : conn[c] \in {"queued", "running"}}

Running == {c \in Conns : conn[c] = "running"}

Accepted == {c \in Conns : conn[c] # "idle"}

IdleConns == {c \in Conns : conn[c] = "idle"}

MinOf(S) == CHOOSE x \in S : \A y \in S : x <= y

\* outcomes of one call of shutdown_request(request):
\* shutdown(SHUT_WR) then close_request -> request.close()
TeardownOutcomes == {"ok", "raise_before_close", "raise_after_close"}

TeardownCloses(o) == IF o = "raise_before_close" THEN 0 ELSE 1

TeardownRaises(o) == o # "ok"

\* Init with a fault: __init__ gives every instance an Event of its own
\* (self._shutdown_event = Event()).
InitOwnEvents ==
    /\ sigint_count = 0
    /\ shutdown_event = FALSE
    /\ handler = "none"
    /\ pc = "run"
    /\ cur = 0
    /\ conn = [c \in Conns |-> "idle"]
    /\ closes = [c \in Conns |-> 0]
    /\ futures = <<>>
    /\ listening = TRUE
    /\ executor_shutdown = FALSE
    /\ exit_status = <<>>
    /\ max_workers = MaxWorkers
    /\ submissions = 0
    /\ sub_state = [c \in Conns |-> "none"]
    /\ close_waited = FALSE
    /\ delivered = 0
    /\ handler_runs = 0
    /\ own_event = [s \in Servers |-> "clear"]

Init ==
    /\ sigint_count = 0
    /\ shutdown_event = FALSE
    /\ handler = "none"
    /\ pc = "run"
    /\ cur = 0
    /\ conn = [c \in Conns |-> "idle"]
    /\ closes = [c \in Conns |-> 0]
    /\ futures = <<>>
    /\ listening = TRUE
    /\ executor_shutdown = FALSE
    /\ exit_status = <<>>
    /\ max_workers = MaxWorkers
    /\ submissions = 0
    /\ sub_state = [c \in Conns |-> "none"]
    /\ close_waited = FALSE
    /\ delivered = 0
    /\ handler_runs = 0
    /\ own_event = [s \in Servers |-> "none"]

\* The main thread executes its own code only when no signal handler frame is
\* on top of it, and only while the process is alive.
MainRuns == handler = "none" /\ pc # "exited"

-----------------------------------------------------------------------------
\* RunLoop with a fault: run() re-arms the server when it leaves its loop
\* (self.shutdown_event.clear()).
RunLoopRearming ==
    /\ MainRuns
    /\ pc = "run"
    /\ pc' = IF is_set(Serving) THEN "returned" ELSE "select"
    /\ shutdown_event' = FALSE
    /\ UNCHANGED <<sigint_count, handler, cur, conn, closes,
                   futures, listening, executor_shutdown, exit_status,
                   max_workers, submissions, sub_state, close_waited,
                   delivered, handler_runs, own_event>>

\* run(): while not self.shutdown_event.is_set(): self.serve_forever()
RunLoop ==
    /\ MainRuns
    /\ pc = "run"
    /\ pc' = IF is_set(Serving) THEN "returned" ELSE "select"
    /\ UNCHANGED <<sigint_count, shutdown_event, handler, cur, conn, closes,
                   futures, listening, executor_shutdown, exit_status,
                   max_workers, submissions, sub_state, close_waited,
                   delivered, handler_runs, own_event>>

\* serve_forever: select() reports the listener readable, get_request()
\* accepts the next connection and process_request is entered with it.
\* The loop tests only __shutdown_request, never shutdown_event.
Accept ==
    /\ MainRuns
    /\ pc = "select"
    /\ listening
    /\ IdleConns # {}
    /\ LET c == MinOf(IdleConns) IN
         /\ conn' = [conn EXCEPT ![c] = "accepted"]
         /\ cur' = c
    /\ pc' = "check"
    /\ UNCHANGED <<sigint_count, shutdown_event, handler, closes, futures,
                   listening, executor_shutdown, exit_status, max_workers,
                   submissions, sub_state, close_waited,
                   delivered, handler_runs, own_event>>

\* serve_forever: selector.select(poll_interval) times out with nothing to
\* accept; the loop goes on to service_actions().
PollTimeout ==
    /\ MainRuns
    /\ pc = "select"
    /\ pc' = "service"
    /\ UNCHANGED <<sigint_count, shutdown_event, handler, cur, conn, closes,
                   futures, listening, executor_shutdown, exit_status,
                   max_workers, submissions, sub_state, close_waited,
                   delivered, handler_runs, own_event>>

\* serve_forever: service_actions() returns and the loop tests
\* __shutdown_request, which nothing sets: back to select().
ServiceActions ==
    /\ MainRuns
    /\ pc = "service"
    /\ pc' = "select"
    /\ UNCHANGED <<sigint_count, shutdown_event, handler, cur, conn, closes,
                   futures, listening, executor_shutdown, exit_status,
                   max_workers, submissions, sub_state, close_waited,
                   delivered, handler_runs, own_event>>

\* ProcessRequestCheck with a fault: a connection is also turned away when
\* every worker is busy.
ProcessRequestCheckBusyReject ==
    /\ MainRuns
    /\ pc = "check"
    /\ IF is_set(Serving) \/ Cardinality(Running) >= max_workers
         THEN /\ closes' = [closes EXCEPT ![cur] = @ + 1]
              /\ conn' = [conn EXCEPT ![cur] = "rejected"]
              /\ cur' = 0
              /\ pc' = "select"
         ELSE /\ pc' = "submit"
              /\ UNCHANGED <<closes, conn, cur>>
    /\ UNCHANGED <<sigint_count, shutdown_event, handler, futures, listening,
                   executor_shutdown, exit_status, max_workers, submissions,
                   sub_state, close_waited,
                   delivered, handler_runs, own_event>>

\* ProcessRequestCheck with a fault: a connection that is turned away is
\* dropped without request.close().
ProcessRequestCheckNoClose ==
    /\ MainRuns
    /\ pc = "check"
    /\ IF is_set(Serving)
         THEN /\ conn' = [conn EXCEPT ![cur] = "rejected"]
              /\ cur' = 0
              /\ pc' = "select"
              /\ UNCHANGED closes
         ELSE /\ pc' = "submit"
              /\ UNCHANGED <<closes, conn, cur>>
    /\ UNCHANGED <<sigint_count, shutdown_event, handler, futures, listening,
                   executor_shutdown, exit_status, max_workers, submissions,
                   sub_state, close_waited, delivered, handler_runs, own_event>>

\* process_request, first half: if self.shutdown_event.is_set():
\*     request.close(); return
ProcessRequestCheck ==
    /\ MainRuns
    /\ pc = "check"
    /\ IF is_set(Serving)
         THEN /\ closes' = [closes EXCEPT ![cur] = @ + 1]
              /\ conn' = [conn EXCEPT ![cur] = "rejected"]
              /\ cur' = 0
              /\ pc' = "select"
         ELSE /\ pc' = "submit"
              /\ UNCHANGED <<closes, conn, cur>>
    /\ UNCHANGED <<sigint_count, shutdown_event, handler, futures, listening,
                   executor_shutdown, exit_status, max_workers, submissions,
                   sub_state, close_waited,
                   delivered, handler_runs, own_event>>

\* _Futures.reap: self[:] = (future for future in self if future.running())
reap(fs) == SelectSeq(fs, LAMBDA c : conn[c] = "running")

\* process_request, second half:
\*     self._futures.append(self.executor.submit(self.__handle_request, ...))
\* with _Futures.append = reap() then list append.
ProcessRequestSubmit ==
    /\ MainRuns
    /\ pc = "submit"
    /\ conn' = [conn EXCEPT ![cur] = "queued"]
    /\ submissions' = submissions + 1
    /\ sub_state' = [sub_state EXCEPT
                       ![cur] = IF is_set(Serving) THEN "Draining" ELSE "Running"]
    /\ futures' = Append(reap(futures), cur)
    /\ cur' = 0
    /\ pc' = "select"
    /\ UNCHANGED <<sigint_count, shutdown_event, handler, closes, listening,
                   executor_shutdown, exit_status, max_workers, close_waited,
                   delivered, handler_runs, own_event>>

-----------------------------------------------------------------------------
\* StartTask with a fault: a thread per task, whatever max_workers is.
StartTaskUnbounded(c) ==
    /\ pc # "exited"
    /\ conn[c] = "queued"
    /\ conn' = [conn EXCEPT ![c] = "running"]
    /\ UNCHANGED <<sigint_count, shutdown_event, handler, pc, cur, closes,
                   futures, listening, executor_shutdown, exit_status,
                   max_workers, submissions, sub_state, close_waited,
                   delivered, handler_runs, own_event>>

\* A worker of the pool takes the oldest queued task; at most max_workers
\* worker threads exist.
StartTask(c) ==
    /\ pc # "exited"
    /\ conn[c] = "queued"
    /\ c = MinOf({d \in Conns : conn[d] = "queued"})
    /\ Cardinality(Running) < max_workers
    /\ conn' = [conn EXCEPT ![c] = "running"]
    /\ UNCHANGED <<sigint_count, shutdown_event, handler, pc, cur, closes,
                   futures, listening, executor_shutdown, exit_status,
                   max_workers, submissions, sub_state, close_waited,
                   delivered, handler_runs, own_event>>

\* __handle_request:
\*   try:    finish_request; shutdown_request
\*   except Exception: log; handle_error; shutdown_request
\* fin: finish_request raises; sd1: outcome of the first shutdown_request;
\* herr: handle_error raises; sd2: outcome of the second shutdown_request.
\* The result: how often request.close() was called, and whether an
\* exception left __handle_request.
HandleRequestResult(fin, sd1, herr, sd2) ==
    IF ~fin /\ ~TeardownRaises(sd1)
      THEN [closed |-> 1, escaped |-> FALSE]
      ELSE LET before == IF fin THEN 0 ELSE TeardownCloses(sd1) IN
           IF herr
             THEN [closed |-> before, escaped |-> TRUE]
             ELSE [closed |-> before + TeardownCloses(sd2),
                   escaped |-> TeardownRaises(sd2)]

HandleRequest(c, fin, sd1, herr, sd2) ==
    /\ pc # "exited"
    /\ conn[c] = "running"
    /\ LET r == HandleRequestResult(fin, sd1, herr, sd2) IN
         /\ closes' = [closes EXCEPT ![c] = @ + r.closed]
         /\ conn' = [conn EXCEPT ![c] = IF r.escaped THEN "failed" ELSE "done"]
    /\ UNCHANGED <<sigint_count, shutdown_event, handler, pc, cur, futures,
                   listening, executor_shutdown, exit_status, max_workers,
                   submissions, sub_state, close_waited,
                   delivered, handler_runs, own_event>>

RunTask(c) ==
    \E fin \in BOOLEAN, herr \in BOOLEAN :
      \E sd1 \in TeardownOutcomes, sd2 \in TeardownOutcomes :
        HandleRequest(c, fin, sd1, herr, sd2)

-----------------------------------------------------------------------------
\* The environment sends SIGINT and the main thread enters _handle_sigint.
\* CPython's C-level handler only marks the signal as tripped; the Python
\* handler runs once at the main thread's next check, so the n >= 1 SIGINTs
\* that arrived since the previous check are handled by one call.
SigintArrives ==
    /\ delivered < MaxSignals
    /\ \E n \in 1..(MaxSignals - delivered) : delivered' = delivered + n
    /\ handler_runs' = handler_runs + 1

\* _handle_sigint, first signal: sigint_count += 1; sigint_count == 1;
\* the handler is now before self.shutdown_event.set().
HandleSigintFirst ==
    /\ pc # "exited"
    /\ sigint_count = 0
    /\ SigintArrives
    /\ sigint_count' = 1
    /\ \E s \in Servers : handler' = s
    /\ UNCHANGED <<shutdown_event, pc, cur, conn, closes, futures, listening,
                   executor_shutdown, exit_status, max_workers, submissions,
                   sub_state, close_waited, own_event>>

\* self.shutdown_event.set() in instance s: sets the Event that the property
\* returns for s.
set(s) ==
    IF own_event[s] = "none"
      THEN shutdown_event' = TRUE /\ UNCHANGED own_event
      ELSE own_event' = [own_event EXCEPT ![s] = "set"] /\ UNCHANGED shutdown_event

\* SetShutdownEvent with a fault: the first signal also cancels the queued tasks
\* (executor.shutdown(wait=False, cancel_futures=True)).
SetShutdownEventCancelling ==
    /\ pc # "exited"
    /\ handler \in Servers
    /\ set(handler)
    /\ handler' = "none"
    /\ conn' = [c \in Conns |-> IF conn[c] = "queued" THEN "cancelled" ELSE conn[c]]
    /\ UNCHANGED <<sigint_count, pc, cur, closes, futures, listening,
                   executor_shutdown, exit_status, max_workers, submissions,
                   sub_state, close_waited, delivered, handler_runs>>

\* _handle_sigint, first signal, rest: self.shutdown_event.set(); return.
SetShutdownEvent ==
    /\ pc # "exited"
    /\ handler \in Servers
    /\ set(handler)
    /\ handler' = "none"
    /\ UNCHANGED <<sigint_count, pc, cur, conn, closes, futures, listening,
                   executor_shutdown, exit_status, max_workers, submissions,
                   sub_state, close_waited, delivered, handler_runs>>

\* HandleSigintSecond with a fault: a handler entered while the first signal's
\* handler is still running works on the value that handler had read, so its
\* increment is lost and it takes the first signal's branch again.
HandleSigintSecondStale ==
    /\ pc # "exited"
    /\ sigint_count = 1
    /\ SigintArrives
    /\ IF handler # "none"
         THEN UNCHANGED <<sigint_count, handler, pc, conn, closes, cur>>
         ELSE /\ sigint_count' = 2
              /\ handler' = "none"
              /\ IF pc \in {"check", "submit"}
                   THEN /\ conn' = [conn EXCEPT ![cur] = "aborted"]
                        /\ closes' = [closes EXCEPT ![cur] = @ + 1]
                        /\ cur' = 0
                        /\ pc' = "close"
                   ELSE /\ pc' = IF pc \in {"select", "service"}
                                   THEN "close" ELSE "unwound"
                        /\ UNCHANGED <<conn, closes, cur>>
    /\ UNCHANGED <<shutdown_event, futures, listening, executor_shutdown,
                   exit_status, max_workers, submissions, sub_state, close_waited,
                   own_event>>

\* _handle_sigint, second signal: sigint_count += 1; sigint_count == 2;
\* sys.exit(1) raises SystemExit in the main thread, wherever it is (also
\* inside the first signal's handler, whose frame is then left before
\* shutdown_event.set()).
\*   inside process_request: _handle_request_noblock's bare except calls
\*     shutdown_request(request) and re-raises;
\*   inside serve_forever: the finally of the serving loop calls
\*     self.server_close();
\*   outside serve_forever: the exception reaches the top of the program.
HandleSigintSecond ==
    /\ pc # "exited"
    /\ sigint_count = 1
    /\ SigintArrives
    /\ sigint_count' = 2
    /\ handler' = "none"
    /\ IF pc \in {"check", "submit"}
         THEN /\ conn' = [conn EXCEPT ![cur] = "aborted"]
              /\ closes' = [closes EXCEPT ![cur] = @ + 1]
              /\ cur' = 0
              /\ pc' = "close"
         ELSE /\ pc' = IF pc \in {"select", "service"} THEN "close" ELSE "unwound"
              /\ UNCHANGED <<conn, closes, cur>>
    /\ UNCHANGED <<shutdown_event, futures, listening, executor_shutdown,
                   exit_status, max_workers, submissions, sub_state, close_waited,
                   own_event>>

\* _handle_sigint, any later signal while the process is still alive:
\* sigint_count += 1 and neither branch is taken.
HandleSigintLater ==
    /\ pc # "exited"
    /\ sigint_count >= 2
    /\ SigintArrives
    /\ sigint_count' = sigint_count + 1
    /\ UNCHANGED <<shutdown_event, handler, pc, cur, conn, closes, futures,
                   listening, executor_shutdown, exit_status, max_workers,
                   submissions, sub_state, close_waited, own_event>>

-----------------------------------------------------------------------------
\* ServerClose with a fault: the pool is drained first and the listening
\* socket is closed only afterwards.
ServerCloseDrainFirst ==
    /\ MainRuns
    /\ pc = "close"
    /\ executor_shutdown' = TRUE
    /\ close_waited' = (Unfinished # {})
    /\ pc' = "drain"
    /\ UNCHANGED <<sigint_count, shutdown_event, handler, cur, conn, closes,
                   futures, listening, exit_status, max_workers, submissions,
                   sub_state, delivered, handler_runs, own_event>>

\* server_close: super().server_close() closes the listening socket, then
\* self.executor.shutdown(wait=True) is entered.
ServerClose ==
    /\ MainRuns
    /\ pc = "close"
    /\ listening' = FALSE
    /\ executor_shutdown' = TRUE
    /\ close_waited' = (Unfinished # {})
    /\ pc' = "drain"
    /\ UNCHANGED <<sigint_count, shutdown_event, handler, cur, conn, closes,
                   futures, exit_status, max_workers, submissions, sub_state,
                   delivered, handler_runs, own_event>>

\* ShutdownWait with a fault: executor.shutdown(wait=False).
ShutdownNoWait ==
    /\ MainRuns
    /\ pc = "drain"
    /\ pc' = "unwound"
    /\ UNCHANGED <<sigint_count, shutdown_event, handler, cur, conn, closes,
                   futures, listening, executor_shutdown, exit_status,
                   max_workers, submissions, sub_state, close_waited,
                   delivered, handler_runs, own_event>>

\* executor.shutdown(wait=True) returns: every worker thread has been joined,
\* and a worker leaves only when the queue is empty.
ShutdownWait ==
    /\ MainRuns
    /\ pc = "drain"
    /\ Unfinished = {}
    /\ pc' = "unwound"
    /\ UNCHANGED <<sigint_count, shutdown_event, handler, cur, conn, closes,
                   futures, listening, executor_shutdown, exit_status,
                   max_workers, submissions, sub_state, close_waited,
                   delivered, handler_runs, own_event>>

\* The code that called run() has control again: run() returned, or
\* SystemExit is passing through the caller's with block or finally clause.
CallerRuns == MainRuns /\ pc \in {"returned", "unwound"}

\* CallerServerClose with a fault: executor.shutdown raises when the executor
\* is already shut down, and the error leaves the caller.
CallerServerCloseRaising ==
    /\ CallerRuns
    /\ Unfinished = {}
    /\ listening' = FALSE
    /\ executor_shutdown' = TRUE
    /\ pc' = IF executor_shutdown THEN "unwound" ELSE pc
    /\ UNCHANGED <<sigint_count, shutdown_event, handler, cur, conn, closes,
                   futures, exit_status, max_workers, submissions, sub_state,
                   close_waited, delivered, handler_runs, own_event>>

\* The caller of run() calls server_close(): closing the listening socket
\* again and shutting the executor down again are accepted by both, and
\* executor.shutdown(wait=True) returns at once as no task is left after
\* run().
CallerServerClose ==
    /\ CallerRuns
    /\ Unfinished = {}
    /\ listening' = FALSE
    /\ executor_shutdown' = TRUE
    /\ UNCHANGED <<sigint_count, shutdown_event, handler, pc, cur, conn, closes,
                   futures, exit_status, max_workers, submissions, sub_state,
                   close_waited, delivered, handler_runs, own_event>>

\* __exit__ of a with block around run():
\*   with suppress(Exception): super().server_close()
\* closes the listening socket and leaves the executor alone.
ExitContext ==
    /\ CallerRuns
    /\ listening' = FALSE
    /\ UNCHANGED <<sigint_count, shutdown_event, handler, pc, cur, conn, closes,
                   futures, executor_shutdown, exit_status, max_workers,
                   submissions, sub_state, close_waited, delivered,
                   handler_runs, own_event>>

\* The program ends: run() returned (status 0) or SystemExit(1) reached the
\* top (status 1); the interpreter joins the pool's worker threads first.
Exit ==
    /\ MainRuns
    /\ pc \in {"returned", "unwound"}
    /\ Unfinished = {}
    /\ exit_status' = IF pc = "unwound" THEN <<1>> ELSE <<0>>
    /\ pc' = "exited"
    /\ UNCHANGED <<sigint_count, shutdown_event, handler, cur, conn, closes,
                   futures, listening, executor_shutdown, max_workers,
                   submissions, sub_state, close_waited,
                   delivered, handler_runs, own_event>>

-----------------------------------------------------------------------------
MainStep ==
    \/ RunLoop
    \/ PollTimeout
    \/ ServiceActions
    \/ ProcessRequestCheck
    \/ ProcessRequestSubmit
    \/ SetShutdownEvent
    \/ ServerClose
    \/ ShutdownWait
    \/ Exit

Next ==
    \/ RunLoop
    \/ Accept
    \/ PollTimeout
    \/ ServiceActions
    \/ ProcessRequestCheck
    \/ ProcessRequestSubmit
    \/ \E c \in Conns : StartTask(c)
    \/ \E c \in Conns : RunTask(c)
    \/ HandleSigintFirst
    \/ SetShutdownEvent
    \/ HandleSigintSecond
    \/ HandleSigintLater
    \/ ServerClose
    \/ ShutdownWait
    \/ CallerServerClose
    \/ ExitContext
    \/ Exit

Spec == Init /\ [][Next]_vars

\* Scheduling: the main thread and the pool's workers keep being scheduled.
\* Nothing is assumed of the environment: connections and signals may or may
\* not arrive, and a request handler may block forever.
SchedSpec ==
    /\ Spec
    /\ WF_vars(MainStep)
    /\ WF_vars(\E c \in Conns : StartTask(c))

\* Scheduling, and every request handler that runs returns or raises.
FairSpec ==
    /\ SchedSpec
    /\ WF_vars(\E c \in Conns : RunTask(c))

TypeOK ==
    /\ sigint_count \in 0..MaxSignals
    /\ shutdown_event \in BOOLEAN
    /\ handler \in {"none"} \union Servers
    /\ pc \in {"run", "select", "service", "check", "submit", "returned", "close",
               "drain", "unwound", "exited"}
    /\ cur \in 0..MaxConn
    /\ conn \in [Conns -> {"idle", "accepted", "rejected", "aborted", "queued",
                           "running", "done", "failed", "cancelled"}]
    /\ closes \in [Conns -> 0..2]
    /\ listening \in BOOLEAN
    /\ executor_shutdown \in BOOLEAN
    /\ exit_status \in {<<>>, <<0>>, <<1>>}
    /\ max_workers \in 1..MaxWorkers
    /\ submissions \in 0..MaxConn
    /\ close_waited \in BOOLEAN
    /\ delivered \in 0..MaxSignals
    /\ handler_runs \in 0..MaxSignals
    /\ own_event \in [Servers -> {"none", "clear", "set"}]

-----------------------------------------------------------------------------
\* The dispatcher has seen shutdown_event.is_set() true: process_request
\* turned a connection away, or run()'s while test ended the loop.
ObservedDraining ==
    \/ \E c \in Conns : conn[c] = "rejected"
    \/ pc = "returned"

\* The process has ended with exit status n.
ExitedWith(n) == pc = "exited" /\ exit_status = <<n>>

\* process_request is holding an accepted connection it has not yet
\* submitted or turned away.
InProcessRequest == IF pc \in {"check", "submit"} THEN 1 ELSE 0

\* C1: no connection is submitted to the worker pool once shutdown_event is
\* set, also when the signal handler runs between the is_set() test and
\* executor.submit.
C1_NoSubmitOnceDraining ==
    \A c \in Conns : sub_state[c] # "Draining"

\* C2: once the dispatcher loop has observed Draining, it performs no further
\* accept.
C2_NoAcceptAfterDraining ==
    [][ObservedDraining => Accepted' = Accepted]_vars

\* C3: when exactly one signal is delivered and every handler finishes, the
\* process eventually exits with status zero.
C3_OrderlyShutdownExits ==
    (sigint_count = 1) ~>
        (sigint_count >= 2 \/ ExitedWith(0))

\* C4: after the second signal the process never waits for a queued or
\* running task: the pool drain is bypassed.
C4_ForceStopNeverWaits ==
    ~(sigint_count >= 2 /\ pc = "drain" /\ Unfinished # {})

\* C5: after exactly two signals the process terminates with a non-zero exit
\* status, whatever the dispatcher and the workers are doing.
C5_TwoSignalsExitNonZero ==
    (sigint_count = 2) ~>
        (sigint_count > 2 \/ ExitedWith(1))

\* C6: every connection whose __handle_request has ended, on whatever path,
\* was closed exactly once.
C6_ClosedExactlyOnce ==
    \A c \in Conns : conn[c] \in Terminal => closes[c] = 1

\* C7: every task submitted before the transition to Draining is eventually
\* executed to completion, unless a second signal occurs.
C7_SubmittedBeforeDrainingCompletes ==
    \A c \in Conns :
        (sub_state[c] = "Running") ~>
            (conn[c] \in Terminal \/ sigint_count >= 2)

\* C7 witness: one signal only, Draining, and a task submitted while Running
\* has run to completion after a later connection was turned away.
C7_Witness ==
    /\ sigint_count = 1
    /\ shutdown_event
    /\ \E c, d \in Conns :
         /\ c < d
         /\ sub_state[c] = "Running"
         /\ conn[c] \in Terminal
         /\ conn[d] = "rejected"

\* C8: when server_close has returned, no submitted task is queued or
\* running, and none was cancelled.
C8_ServerCloseDrains ==
    (executor_shutdown /\ pc \in {"unwound", "exited"}) =>
        \A c \in Conns : conn[c] \notin {"queued", "running", "cancelled"}

\* C8 witness: server_close was called with tasks queued or running and has
\* returned.
C8_Witness ==
    /\ executor_shutdown
    /\ pc = "unwound"
    /\ close_waited
    /\ \E c \in Conns : conn[c] \in Terminal

\* C9: at most max_workers handlers execute at once, and every submitted
\* handler eventually completes.
C9_BoundedConcurrencyAndCompletion ==
    /\ [](Cardinality(Running) <= max_workers)
    /\ \A c \in Conns :
         (conn[c] \in {"queued", "running"}) ~> (conn[c] \in Terminal)

\* C9 witness: every worker is busy and a further task waits in the queue.
C9_Witness ==
    /\ Cardinality(Running) = max_workers
    /\ \E c \in Conns : conn[c] = "queued"

\* C10: while the state is Running (no signal yet), every accepted connection
\* has been submitted exactly once or is in process_request on its way to
\* submission; none was turned away; and executor.submit never blocks.
C10_SubmissionsEqualAccepted ==
    sigint_count = 0 =>
        /\ submissions + InProcessRequest = Cardinality(Accepted)
        /\ \A c \in Accepted \ {cur} :
             conn[c] \in {"queued", "running"} \cup Terminal
        /\ (pc = "submit" => ENABLED ProcessRequestSubmit)

\* C10 witness: no signal, every worker busy, and connections accepted beyond
\* the pool's capacity have all been submitted.
C10_Witness ==
    /\ sigint_count = 0
    /\ pc = "select"
    /\ Cardinality(Running) = max_workers
    /\ submissions > max_workers
    /\ submissions = Cardinality(Accepted)

-----------------------------------------------------------------------------
\* C11: the shutdown state only moves forward. Once an instance's
\* shutdown_event is set it stays set for the rest of the process's life, and
\* sigint_count never decreases, so the state never goes from Draining back to
\* Running nor from ForceStop back to Draining.
C11_ShutdownStateMonotonic ==
    [][/\ \A s \in Servers : is_set(s) => is_set(s)'
       /\ sigint_count' >= sigint_count]_vars

\* The event was set by the first signal and is still set after later
\* signals, the close of the server and the end of the process.
C11_Witness ==
    /\ shutdown_event
    /\ sigint_count > 1
    /\ pc = "exited"
    /\ \E c \in Conns : conn[c] \in Terminal

-----------------------------------------------------------------------------
-----------------------------------------------------------------------------
\* C13: sigint_count never exceeds 2: the handler is never entered for a
\* third signal, because the process has exited when the count reached 2.
C13_CounterAtMostTwo == sigint_count <= 2

-----------------------------------------------------------------------------
\* C14: after exactly one signal the state is Draining (when the handler of
\* the first signal has returned, shutdown_event is set), and a connection
\* that process_request holds while shutdown_event is set is closed exactly
\* once and never submitted: its next step turns it away with one
\* request.close() (or a second signal aborts it, with one close), and from
\* then on it is never queued, run or closed again.
C14_DrainingTurnsConnectionsAway ==
    [][/\ (sigint_count' = 1 /\ handler' = "none") => is_set(Serving)'
       /\ \A c \in Conns :
            /\ (conn[c] = "idle" /\ conn'[c] # "idle")
                  => conn'[c] = "accepted" /\ cur' = c /\ pc' = "check"
                       /\ closes'[c] = 0
            /\ (conn[c] = "accepted" /\ pc = "check" /\ is_set(Serving))
                  => \/ conn'[c] = "accepted" /\ pc' = "check" /\ closes'[c] = 0
                     \/ /\ conn'[c] \in {"rejected", "aborted"}
                        /\ closes'[c] = 1
                        /\ sub_state'[c] = "none"
                        /\ submissions' = submissions
                        /\ futures' = futures
            /\ conn[c] \in {"rejected", "aborted"}
                  => conn'[c] = conn[c] /\ closes'[c] = closes[c]
                       /\ sub_state'[c] = "none"]_vars

\* One signal was delivered, and a connection accepted afterwards has been
\* turned away with one close and without a submission.
C14_Witness ==
    /\ delivered = 1
    /\ sigint_count = 1
    /\ handler = "none"
    /\ submissions = 0
    /\ \E c \in Conns : conn[c] = "rejected" /\ closes[c] = 1

-----------------------------------------------------------------------------
\* C15: calling server_close twice is safe. Once server_close has run, the
\* caller can call it again, the call returns without an error and no part
\* of the state of the server, the listener or the pool differs afterwards.
C15_SecondServerCloseChangesNothing ==
    (CallerRuns /\ executor_shutdown)
        => (ENABLED CallerServerClose) /\ ~(ENABLED <<CallerServerClose>>_vars)

\* run() has returned and its caller has called server_close once; a second
\* call is possible now.
C15_Witness ==
    /\ pc = "returned"
    /\ handler = "none"
    /\ executor_shutdown
    /\ ~listening

-----------------------------------------------------------------------------
-----------------------------------------------------------------------------
\* C17: the first signal cancels nothing. The two steps of the handler of the
\* first signal (the increment of sigint_count, then shutdown_event.set() and
\* the return) leave every connection where it is, queued tasks queued and
\* running tasks running, and touch neither the tracking list nor the
\* executor.
C17_FirstSignalCancelsNothing ==
    [][(\/ sigint_count = 0 /\ sigint_count' = 1
        \/ handler \in Servers /\ handler' = "none" /\ sigint_count' = sigint_count)
         => /\ conn' = conn
            /\ closes' = closes
            /\ futures' = futures
            /\ executor_shutdown' = executor_shutdown
            /\ listening' = listening]_vars

\* The handler of the first signal has returned; a task submitted before it
\* is still running and another one is still queued.
C17_Witness ==
    /\ sigint_count = 1
    /\ shutdown_event
    /\ handler = "none"
    /\ \E c \in Conns : conn[c] = "running" /\ sub_state[c] = "Running"
    /\ \E c \in Conns : conn[c] = "queued" /\ sub_state[c] = "Running"

-----------------------------------------------------------------------------
\* C18: a failure raised by the request/response callable (finish_request
\* raises) is caught inside __handle_request: no run of __handle_request in
\* which finish_request raises lets an exception leave the task or ends
\* with the connection not closed.
C18_CallableFailureContained ==
    \A c \in Conns, herr \in BOOLEAN :
      \A sd1 \in TeardownOutcomes, sd2 \in TeardownOutcomes :
        ~ENABLED (/\ HandleRequest(c, TRUE, sd1, herr, sd2)
                  /\ (conn'[c] = "failed" \/ closes'[c] = 0))

-----------------------------------------------------------------------------
\* C19: a handle leaves the tracking list only once its task has completed:
\* every submitted task that is still queued or running is in _futures.
C19_UnfinishedTasksTracked ==
    \A c \in Unfinished : \E i \in 1..Len(futures) : futures[i] = c

-----------------------------------------------------------------------------
\* C20: the shutdown state is process-wide. All instances of the class see
\* the same shutdown_event; when the handler of the first signal returns,
\* whichever instance it is bound to, every instance is Draining (the
\* serving one turns connections away); and every call of the handler, of
\* whichever instance, advances the one counter sigint_count.
C20_ShutdownStateProcessWide ==
    /\ [](\A s \in Servers, t \in Servers : is_set(s) = is_set(t))
    /\ [][(handler \in Servers /\ handler' = "none" /\ sigint_count' = sigint_count)
             => \A s \in Servers : is_set(s)']_vars
    /\ [][handler_runs' # handler_runs => sigint_count' = sigint_count + 1]_vars

\* The handler bound to the instance that is not serving has been entered
\* for the first signal while the serving instance holds a connection in
\* process_request.
C20_Witness ==
    /\ handler # "none"
    /\ handler # Serving
    /\ sigint_count = 1
    /\ pc = "check"

====
